---- MODULE Spec2Model ----
(***************************************************************************)
(* Model of ecs-pipeline-deploy (src/ecs_pipeline_deploy/cli.py): one run  *)
(* of ECSPipeline(args).deploy() against the ECS API.  Strings that the    *)
(* program parses, renders or compares are sequences of one-character      *)
(* strings; the ECS API is the environment and chooses its responses.      *)
(* The parser, the Registrar, the Transformer and _list_running_tasks have *)
(* specifications of their own on larger inputs, _wait_on_tasks has one    *)
(* with fairness for its liveness, and the rolling restart of the legacy   *)
(* module src/ecs_pipeline_deploy.py is modelled next to the run of cli.py.*)
(***************************************************************************)
EXTENDS Integers, Sequences, FiniteSets, TLC

VARIABLES args, image, redeploying, service_arn, desired_qty, current,
          task_definition, pc, exit_code, outcome, calls, registerCalls,
          updateCalls, response, fetched, running, task_arns, tasks,
          service_arns, describeCalls, old_tasks, stopCalls

vars == <<args, image, redeploying, service_arn, desired_qty, current,
          task_definition, pc, exit_code, outcome, calls, registerCalls,
          updateCalls, response, fetched, running, task_arns, tasks,
          service_arns, describeCalls, old_tasks, stopCalls>>

(***************************************************************************)
(* Characters and the character classes of IMAGE_PATTERN                   *)
(***************************************************************************)
\* the printable ASCII characters from code point 32 to 95, and from 97 on
AsciiTo95 == <<
    " ", "!", "\"", "#", "$", "%", "&", "'", "(", ")",
    "*", "+", ",", "-", ".", "/", "0", "1", "2", "3",
    "4", "5", "6", "7", "8", "9", ":", ";", "<", "=",
    ">", "?", "@", "A", "B", "C", "D", "E", "F", "G",
    "H", "I", "J", "K", "L", "M", "N", "O", "P", "Q",
    "R", "S", "T", "U", "V", "W", "X", "Y", "Z", "[",
    "\\", "]", "^", "_" >>
AsciiFrom97 == <<
    "a", "b", "c", "d", "e", "f", "g", "h", "i", "j",
    "k", "l", "m", "n", "o", "p", "q", "r", "s", "t",
    "u", "v", "w", "x", "y", "z", "{", "|", "}", "~" >>

\* ord(c)
Ord(c) ==
    IF \E i \in 1..Len(AsciiTo95) : AsciiTo95[i] = c
    THEN 31 + CHOOSE i \in 1..Len(AsciiTo95) : AsciiTo95[i] = c
    ELSE 96 + CHOOSE i \in 1..Len(AsciiFrom97) : AsciiFrom97[i] = c

\* a-z, A-Z and 0-9; \w is these and "_"
LowerChars == {AsciiFrom97[i] : i \in 1..26}
UpperChars == {AsciiTo95[i] : i \in 34..59}
DigitChars == {AsciiTo95[i] : i \in 17..26}
WordChars == LowerChars \cup UpperChars \cup DigitChars \cup {"_"}
RepoChars == WordChars \cup {".", "-"}
NameChars == LowerChars \cup DigitChars \cup {".", "-", "_"}
TagChars == WordChars \cup {".", "-"}

TagMaxLen == 127

\* s[i..j] is a non-empty run of characters of class C
Run(s, i, j, C) == i <= j /\ j <= Len(s) /\ \A k \in i..j : s[k] \in C

\* a lookahead that is content with one path segment after the registry
LookaheadOneSegment(s, p) ==
    /\ p + 1 <= Len(s)
    /\ s[p] = "/"
    /\ s[p + 1] \in NameChars

\* (?=/[a-z0-9._-]+/[a-z0-9._-]+) at position p (the next character is s[p])
Lookahead(s, p) ==
    \E m \in p + 1..Len(s) :
        /\ s[p] = "/"
        /\ Run(s, p + 1, m, NameChars)
        /\ m + 2 <= Len(s)
        /\ s[m + 1] = "/"
        /\ s[m + 2] \in NameChars

\* the ends re of a non-empty `repository` group s[1..re]
RepoEnds(s) ==
    {re \in 1..Len(s) :
        /\ \E w \in 1..re :
              /\ Run(s, 1, w, RepoChars)
              /\ \/ w = re
                 \/ w + 2 <= re /\ s[w + 1] = ":" /\ Run(s, w + 2, re, DigitChars)
        /\ re + 1 <= Len(s)
        /\ Lookahead(s, re + 1)}

\* the start of the `name` group after (?:/|) at position p
NameStart(s, p) == IF p <= Len(s) /\ s[p] = "/" THEN p + 1 ELSE p

\* the ends e of a `name` group s[q..e]: a segment, optionally "/" segment
NameEnds(s, q) ==
    {e \in q..Len(s) :
        \E m \in q..e :
            /\ Run(s, q, m, NameChars)
            /\ \/ m = e
               \/ m + 2 <= e /\ s[m + 1] = "/" /\ Run(s, m + 2, e, NameChars)}

\* a tag of any length
TagOKAnyLength(s, e) ==
    \/ e = Len(s)
    \/ /\ e + 2 <= Len(s)
       /\ s[e + 1] = ":"
       /\ Run(s, e + 2, Len(s), TagChars)

\* (?::(?P<tag>[\w.\-_]{1,127})|)$ after the name ending at e
TagOK(s, e) ==
    \/ e = Len(s)
    \/ /\ e + 2 <= Len(s)
       /\ s[e + 1] = ":"
       /\ Len(s) - (e + 1) <= TagMaxLen
       /\ Run(s, e + 2, Len(s), TagChars)

\* the matches <<re, q, e>> of IMAGE_PATTERN: repository s[1..re] (re = 0 is
\* the empty alternative), name s[q..e], tag s[e+2..Len(s)]
Matches(s) ==
    {m \in ((RepoEnds(s) \cup {0}) \X (1..Len(s) + 1) \X (1..Len(s))) :
        /\ m[2] = NameStart(s, m[1] + 1)
        /\ m[3] \in NameEnds(s, m[2])
        /\ TagOK(s, m[3])}

\* the match the regex engine returns: the non-empty repository alternative
\* is tried first, and every repetition is greedy
FirstMatch(s) ==
    CHOOSE m \in Matches(s) :
        \A o \in Matches(s) : o[1] < m[1] \/ (o[1] = m[1] /\ o[3] <= m[3])

None == <<>>
Latest == <<"l", "a", "t", "e", "s", "t">>

Image(registry, name, tag) == [registry |-> registry, name |-> name, tag |-> tag]

CanParse(s) == Matches(s) # {}

\* parse_image for a string that matches; `x or None`, `x or 'latest'`
parse_image(s) ==
    LET m == FirstMatch(s)
        repository == SubSeq(s, 1, m[1])
        tag == SubSeq(s, m[3] + 2, Len(s))
    IN Image(IF repository # <<>> THEN repository ELSE None,
             SubSeq(s, m[2], m[3]),
             IF tag # <<>> THEN tag ELSE Latest)

\* a rendering that leaves a 'latest' tag out
ImageToStrDefaultingLatest(img) ==
    IF img.tag = Latest
    THEN IF img.registry # None
         THEN img.registry \o <<"/">> \o img.name
         ELSE img.name
    ELSE IF img.registry # None
    THEN img.registry \o <<"/">> \o img.name \o <<":">> \o img.tag
    ELSE img.name \o <<":">> \o img.tag

image_to_str(img) ==
    IF img.registry # None
    THEN img.registry \o <<"/">> \o img.name \o <<":">> \o img.tag
    ELSE img.name \o <<":">> \o img.tag

(***************************************************************************)
(* Ordering of Image tuples and sorted()                                   *)
(***************************************************************************)
RECURSIVE StrLess(_, _)
\* str.__lt__: lexicographic by code point
StrLess(a, b) ==
    IF a = <<>> THEN b # <<>>
    ELSE IF b = <<>> THEN FALSE
    ELSE IF a[1] = b[1] THEN StrLess(Tail(a), Tail(b))
    ELSE Ord(a[1]) < Ord(b[1])

\* tuple.__lt__ on Image: the first differing field decides
ImageLess(x, y) ==
    IF x.registry # y.registry THEN StrLess(x.registry, y.registry)
    ELSE IF x.name # y.name THEN StrLess(x.name, y.name)
    ELSE StrLess(x.tag, y.tag)

\* comparing a None registry with a str registry raises TypeError
Comparable(x, y) == (x.registry = None) = (y.registry = None)

\* x put into the sorted sequence s, after the elements not greater than it
Insert(x, s) ==
    LET before == {i \in 1..Len(s) : ~ImageLess(x, s[i])}
        k == IF before = {} THEN 0
             ELSE CHOOSE i \in before : \A j \in before : j <= i
    IN SubSeq(s, 1, k) \o <<x>> \o SubSeq(s, k + 1, Len(s))

RECURSIVE Sorted(_)
\* sorted(): stable, ascending
Sorted(s) ==
    IF s = <<>> THEN <<>>
    ELSE Insert(s[Len(s)], Sorted(SubSeq(s, 1, Len(s) - 1)))

\* what a call returns: the exception it raises ("none" when it returns)
\* and its value
Returned(v) == [exc |-> "none", val |-> v]
Raised(e, v) == [exc |-> e, val |-> v]

_get_containers(definition) ==
    LET cds == definition["containerDefinitions"]
        containers == [i \in 1..Len(cds) |->
                          IF CanParse(cds[i]["image"])
                          THEN parse_image(cds[i]["image"])
                          ELSE Image(None, <<>>, <<>>)]
    IN IF \E i \in 1..Len(cds) : ~CanParse(cds[i]["image"])
       THEN Raised("ValueError", <<>>)
       ELSE IF \E i, j \in 1..Len(cds) : ~Comparable(containers[i], containers[j])
       THEN Raised("TypeError", <<>>)
       ELSE Returned(Sorted(containers))

\* `x in list`
In(x, s) == \E i \in 1..Len(s) : s[i] = x

RECURSIVE Replace(_, _, _)
\* str.replace(old, new) for a non-empty old
Replace(s, old, new) ==
    IF Len(s) < Len(old) THEN s
    ELSE IF SubSeq(s, 1, Len(old)) = old
    THEN new \o Replace(SubSeq(s, Len(old) + 1, Len(s)), old, new)
    ELSE <<s[1]>> \o Replace(Tail(s), old, new)

HasLogTag(cd) ==
    /\ "logConfiguration" \in DOMAIN cd
    /\ "options" \in DOMAIN cd["logConfiguration"]
    /\ "tag" \in DOMAIN cd["logConfiguration"]["options"]

\* lines 247-255: the container at `offset` gets the image, and its log tag
\* option has the tag of `found` replaced
Rewritten(cd, found, img) ==
    IF HasLogTag(cd)
    THEN [cd EXCEPT !["image"] = image_to_str(img),
                    !["logConfiguration"]["options"]["tag"] =
                        Replace(@, found.tag, img.tag)]
    ELSE [cd EXCEPT !["image"] = image_to_str(img)]

\* the offsets, in the sorted containers, of those with img's registry and name
Hits(containers, img) ==
    {o \in 1..Len(containers) :
        /\ img.registry = containers[o].registry
        /\ img.name = containers[o].name}

Lowest(S) == CHOOSE o \in S : \A h \in S : o <= h

ModifyAt(definition, containers, offset, img) ==
    [definition EXCEPT !["containerDefinitions"][offset] =
        Rewritten(@, containers[offset], img)]

ModifyFirst(definition, containers, hits, img) ==
    IF hits = {}
    THEN Raised("ImageNotFound", definition)
    ELSE Returned(ModifyAt(definition, containers, Lowest(hits), img))

ModifyIn(definition, containers, img) ==
    ModifyFirst(definition, containers, Hits(containers, img), img)

\* "ImageNotFound" is the ValueError('Did not find the image ...')
_modify_task_definition(definition, img) ==
    ModifyIn(definition, _get_containers(definition).val, img)

ServerKeys == {"compatibilities", "requiresAttributes",
               "requiresCompatibilities", "revision", "status",
               "taskDefinitionArn"}

\* a registrar that forgets to strip `status`
SaveKeepingStatus(definition) ==
    [k \in DOMAIN definition \ (ServerKeys \ {"status"}) |-> definition[k]]

\* the keyword arguments of register_task_definition(**definition)
_save_task_definition(definition) ==
    [k \in DOMAIN definition \ ServerKeys |-> definition[k]]

(***************************************************************************)
(* Inputs: the command line and what the ECS API can answer                *)
(***************************************************************************)
MaxContainers == 2
MaxDesired == 1
MaxTasks == 2
MaxPolls == 2
MaxDescribes == 1

ImgA1 == <<"a", ":", "1">>
ImgA2 == <<"a", ":", "2">>
ImgB1 == <<"b", ":", "1">>
ImgRab1 == <<"r", "/", "a", "/", "b", ":", "1">>
ImgRab2 == <<"r", "/", "a", "/", "b", ":", "2">>
ImgBad == <<"a", "@", "1">>

\* a tag of n characters
LongTag(n) == [i \in 1..n |-> "1"]

ImgEmpty == <<>>
ImgTag127 == <<"a", ":">> \o LongTag(TagMaxLen)
ImgTag128 == <<"a", ":">> \o LongTag(TagMaxLen + 1)

\* values of the IMAGE argument
ArgImages == {ImgA1, ImgA2, ImgRab2, ImgBad, ImgEmpty, ImgTag128}

LogTagA1 == <<"a", "-", "1">>

\* container definitions a task definition can hold
CdA1 == [image |-> ImgA1,
         logConfiguration |-> [options |-> [tag |-> LogTagA1]]]
CdB1 == [image |-> ImgB1]
CdRab1 == [image |-> ImgRab1]
CdBad == [image |-> ImgBad]
ContainerPool == {CdA1, CdB1, CdRab1, CdBad}

ContainerLists ==
    UNION {[1..n -> ContainerPool] : n \in 1..MaxContainers}

CurrentArn == "td/web:1"
NewArn == "td/web:2"
TaskDefArns == {CurrentArn, NewArn}

\* the optional keys describe_task_definition returns next to family,
\* containerDefinitions and taskDefinitionArn
ExtraKeys == {"compatibilities", "requiresAttributes",
              "requiresCompatibilities", "revision", "status", "volumes"}

TaskDefinition(cds, extra) ==
    [k \in {"family", "containerDefinitions", "taskDefinitionArn"} \cup extra |->
        CASE k = "containerDefinitions" -> cds
          [] k = "taskDefinitionArn" -> CurrentArn
          [] k = "family" -> "web"
          [] OTHER -> k]

Definitions == {TaskDefinition(cds, ExtraKeys) : cds \in ContainerLists}

\* service ARNs, listed here in sorted order, and the SERVICE argument
ArnApi == <<"s", "/", "c", "/", "a", "p", "i">>
ArnWeb == <<"s", "/", "c", "/", "w", "e", "b">>
ArnWeb2 == <<"s", "/", "c", "/", "w", "e", "b", "-", "2">>
ServiceArnPool == <<ArnApi, ArnWeb, ArnWeb2>>
ServiceName == <<"w", "e", "b">>

TaskArns == <<"t1", "t2", "t3", "t4">>

\* one observation of the running tasks: (taskArn, taskDefinitionArn) pairs
Observations ==
    UNION {[1..n -> TaskDefArns] : n \in 0..MaxTasks}

NoImage == Image(None, <<>>, <<>>)
NoDefinition == [k \in {} |-> k]
NoExit == -1
BatchSize == 100

Count(name) == Cardinality({i \in 1..Len(calls) : calls[i] = name})

(***************************************************************************)
(* The run: main() -> ECSPipeline(args) -> deploy()                        *)
(***************************************************************************)
Init ==
    /\ args \in [image : ArgImages, service : {ServiceName},
                 force : BOOLEAN, redeploy : BOOLEAN,
                 wait : BOOLEAN, only_new : BOOLEAN]
    /\ image = NoImage
    /\ redeploying = FALSE
    /\ service_arn = <<>>
    /\ desired_qty = 0
    /\ current = NoDefinition
    /\ fetched = NoDefinition
    /\ task_definition = ""
    /\ pc = "parse_image"
    /\ exit_code = NoExit
    /\ outcome = ""
    /\ calls = <<>>
    /\ registerCalls = <<>>
    /\ updateCalls = <<>>
    /\ response = ""
    /\ running = <<>>
    /\ task_arns = <<>>
    /\ tasks = <<>>
    /\ service_arns = <<>>
    /\ describeCalls = <<>>
    /\ old_tasks = <<>>
    /\ stopCalls = <<>>

\* sys.exit(code), or an uncaught exception (exit status 1)
Exit(code, what) ==
    /\ pc' = "exit"
    /\ exit_code' = code
    /\ outcome' = what

\* __init__, lines 49-54
ParseImage ==
    /\ pc = "parse_image"
    /\ UNCHANGED <<service_arns, describeCalls, old_tasks, stopCalls>>
    /\ IF CanParse(args.image)
       THEN /\ image' = parse_image(args.image)
            /\ pc' = "get_service_arn"
            /\ UNCHANGED <<exit_code, outcome>>
       ELSE /\ Exit(1, "MalformedImage")
            /\ UNCHANGED image
    /\ UNCHANGED <<args, redeploying, service_arn, desired_qty, current,
                   task_definition, calls, registerCalls, updateCalls,
                   response, fetched, running, task_arns, tasks>>

\* sorted(arns) for the listed ARNs
_services(listed) ==
    LET keep == {i \in 1..Len(ServiceArnPool) : ServiceArnPool[i] \in listed}
        F[i \in 0..Len(ServiceArnPool)] ==
            IF i = 0 THEN <<>>
            ELSE IF i \in keep THEN Append(F[i - 1], ServiceArnPool[i])
            ELSE F[i - 1]
    IN F[Len(ServiceArnPool)]

\* arn.split('/')[-1]
LastPart(arn) ==
    LET slashes == {i \in 1..Len(arn) : arn[i] = "/"}
    IN IF slashes = {} THEN arn
       ELSE SubSeq(arn, (CHOOSE i \in slashes : \A j \in slashes : j <= i) + 1,
                   Len(arn))

\* a lookup that also takes a service whose name begins with the asked one
ServiceMatchesPrefix(arn, name) ==
    /\ Len(name) <= Len(LastPart(arn))
    /\ SubSeq(LastPart(arn), 1, Len(name)) = name

\* line 144
ServiceMatches(arn, name) == LastPart(arn) = name

\* _get_service_arn, lines 141-148, over the ARNs that _services returned:
\* the list is the function's own, so it is gone once the function returns
Locate(arns, hits) ==
    IF hits # {}
    THEN /\ service_arn' = arns[Lowest(hits)]
         /\ service_arns' = <<>>
         /\ pc' = "describe_service"
         /\ UNCHANGED <<exit_code, outcome>>
    ELSE /\ Exit(1, "ServiceNotFound")
         /\ service_arns' = arns
         /\ UNCHANGED service_arn

LocateIn(arns) ==
    Locate(arns, {i \in 1..Len(arns) : ServiceMatches(arns[i], args.service)})

\* __init__, lines 55-58, and _get_service_arn
GetServiceArn ==
    /\ pc = "get_service_arn"
    /\ UNCHANGED <<describeCalls, old_tasks, stopCalls>>
    /\ calls' = Append(calls, "list_services")
    /\ \/ /\ Exit(1, "ClusterNotFound")
          /\ UNCHANGED <<service_arn, service_arns>>
       \/ \E listed \in SUBSET {ServiceArnPool[i] : i \in 1..Len(ServiceArnPool)} :
             LocateIn(_services(listed))
    /\ UNCHANGED <<args, image, redeploying, desired_qty, current,
                   task_definition, registerCalls, updateCalls,
                   response, fetched, running, task_arns, tasks>>

\* _describe_service and _describe_task_definition
DescribeService ==
    /\ pc = "describe_service"
    /\ UNCHANGED <<service_arns, describeCalls, old_tasks, stopCalls>>
    /\ calls' = calls \o <<"describe_services", "describe_task_definition">>
    /\ \E qty \in 0..MaxDesired, definition \in Definitions :
          /\ desired_qty' = qty
          /\ current' = definition
          /\ fetched' = definition
    /\ pc' = "get_task_definition"
    /\ UNCHANGED <<args, image, redeploying, service_arn, task_definition,
                   exit_code, outcome, registerCalls, updateCalls,
                   response, running, task_arns, tasks>>

\* _save_task_definition(self.current): the keys are deleted from the dict
\* itself, and the ARN that register_task_definition returns is the result
SaveTaskDefinition(definition) ==
    /\ current' = _save_task_definition(definition)
    /\ registerCalls' = Append(registerCalls, _save_task_definition(definition))
    /\ calls' = Append(calls, "register_task_definition")
    /\ task_definition' = NewArn
    /\ pc' = "deploy"
    /\ UNCHANGED <<exit_code, outcome>>

\* _get_task_definition, lines 166-167, given what _modify_task_definition did
RegisterNew(modified) ==
    IF modified.exc # "none"
    THEN /\ Exit(1, modified.exc)
         /\ UNCHANGED <<redeploying, current, task_definition, calls,
                        registerCalls>>
    ELSE /\ SaveTaskDefinition(modified.val)
         /\ UNCHANGED redeploying

\* _get_task_definition, given what _get_containers(self.current) did
Resolve(containers) ==
    IF containers.exc # "none"
    THEN /\ Exit(1, containers.exc)
         /\ UNCHANGED <<redeploying, current, task_definition, calls,
                        registerCalls>>
    ELSE IF In(image, containers.val)
    THEN IF args.redeploy
         THEN /\ redeploying' = TRUE
              /\ task_definition' = current["taskDefinitionArn"]
              /\ pc' = "deploy"
              /\ UNCHANGED <<current, calls, registerCalls, exit_code, outcome>>
         ELSE IF args.force
         THEN /\ redeploying' = TRUE
              /\ SaveTaskDefinition(current)
         ELSE /\ Exit(2, "Conflict")
              /\ UNCHANGED <<redeploying, current, task_definition, calls,
                             registerCalls>>
    ELSE RegisterNew(_modify_task_definition(current, image))

\* __init__, line 60
GetTaskDefinition ==
    /\ pc = "get_task_definition"
    /\ UNCHANGED <<service_arns, describeCalls, old_tasks, stopCalls>>
    /\ Resolve(_get_containers(current))
    /\ UNCHANGED <<args, image, service_arn, desired_qty, updateCalls,
                   response, fetched, running, task_arns, tasks>>

\* an update that forces a new deployment whenever self.redeploying is set
UpdateServiceArgsRedeploying ==
    [service |-> service_arn, taskDefinition |-> task_definition,
     forceNewDeployment |-> redeploying]

\* the keyword arguments of update_service, lines 68-71
UpdateServiceArgs ==
    [service |-> service_arn, taskDefinition |-> task_definition,
     forceNewDeployment |-> args.redeploy]

\* a wait that is decided by the wrong flag
WaitsOnOnlyNew == args.only_new

\* line 77
Waits == args.wait

\* an update that is issued again when the answer names another definition
UnconfirmedRetry ==
    /\ pc' = "deploy"
    /\ UNCHANGED <<exit_code, outcome>>

\* lines 72-80: there is no else branch, deploy returns and main ends
Unconfirmed == Exit(0, "unconfirmed")

\* deploy, lines 64-80 up to the wait
UpdateService ==
    /\ pc = "deploy"
    /\ UNCHANGED <<service_arns, describeCalls, old_tasks, stopCalls>>
    /\ calls' = Append(calls, "update_service")
    /\ updateCalls' = Append(updateCalls, UpdateServiceArgs)
    /\ \E echo \in TaskDefArns :
          /\ response' = echo
          /\ IF echo = task_definition
             THEN IF Waits
                  THEN /\ pc' = "wait"
                       /\ UNCHANGED <<exit_code, outcome>>
                  ELSE Exit(0, "complete")
             ELSE Unconfirmed
    /\ UNCHANGED <<args, image, redeploying, service_arn, desired_qty, current,
                   task_definition, registerCalls, fetched, running,
                   task_arns, tasks>>

\* _list_running_tasks, lines 211-222: the list_tasks pages
ListTasks ==
    /\ pc = "wait"
    /\ UNCHANGED <<service_arns, old_tasks, stopCalls>>
    /\ describeCalls' = <<>>
    /\ Count("list_tasks") < MaxPolls
    /\ calls' = Append(calls, "list_tasks")
    /\ \E obs \in Observations :
          /\ running' = [i \in 1..Len(obs) |-> <<TaskArns[i], obs[i]>>]
          /\ task_arns' = [i \in 1..Len(obs) |-> TaskArns[i]]
          /\ pc' = IF Len(obs) = 0 THEN "check" ELSE "describe"
    /\ tasks' = <<>>
    /\ UNCHANGED <<args, image, redeploying, service_arn, desired_qty, current,
                   task_definition, exit_code, outcome, registerCalls,
                   updateCalls, response, fetched>>

\* s without the elements of the set gone (list.remove of each)
Without(s, gone) == SelectSeq(s, LAMBDA x : x \notin gone)

Range(s) == {s[i] : i \in 1..Len(s)}

\* a request that carries every ARN that is left
BatchOfAll(arns) == arns

\* task_arns[:100]
Batch(arns) ==
    SubSeq(arns, 1, IF Len(arns) < BatchSize THEN Len(arns) ELSE BatchSize)

\* the tasks with the ARNs in `known`, as describe_tasks returns them
Described(known) ==
    Without(running, {running[i] : i \in {j \in 1..Len(running) :
                                              running[j][1] \notin known}})

\* lines 227-231: each returned task is appended and its ARN removed
Describe(known) ==
    /\ tasks' = tasks \o Described(known)
    /\ task_arns' = Without(task_arns, known)
    /\ pc' = IF task_arns' = <<>> THEN "check" ELSE "describe"

\* the tasks of a request that the API may leave out of its answer: none,
\* or any one of them in the first MaxDescribes requests of a run
Omissions(batch) ==
    {{}} \cup IF Count("describe_tasks") < MaxDescribes
             THEN {{arn} : arn \in Range(batch)}
             ELSE {}

\* _list_running_tasks, lines 223-231: one describe_tasks call; the API
\* leaves out the tasks it no longer knows
DescribeTasks ==
    /\ pc = "describe"
    /\ UNCHANGED <<service_arns, old_tasks, stopCalls>>
    /\ calls' = Append(calls, "describe_tasks")
    /\ describeCalls' = Append(describeCalls, Batch(task_arns))
    /\ \E missing \in Omissions(Batch(task_arns)) :
          Describe(Range(Batch(task_arns)) \ missing)
    /\ UNCHANGED <<args, image, redeploying, service_arn, desired_qty, current,
                   task_definition, exit_code, outcome, registerCalls,
                   updateCalls, response, fetched, running>>

\* counts.get(self.task_definition, 0) after the Counter loop, lines 301-303
CountOf(task_def) ==
    Cardinality({i \in 1..Len(tasks) : tasks[i][2] = task_def})

\* an exit test that forgets --only-new
ConvergedIgnoringOnlyNew == CountOf(task_definition) = desired_qty

\* an exit test that lets a service with no desired task pass at once
ConvergedWhenNoneDesired ==
    \/ desired_qty = 0 /\ ~args.only_new
    \/ /\ CountOf(task_definition) = desired_qty
       /\ ~args.only_new \/ Len(tasks) = desired_qty

\* an exit test that is content with more tasks of the target than desired
ConvergedAtLeast ==
    /\ CountOf(task_definition) >= desired_qty
    /\ ~args.only_new \/ Len(tasks) = desired_qty

\* the exit test of the wait loop, lines 310-311
Converged ==
    /\ CountOf(task_definition) = desired_qty
    /\ ~args.only_new \/ Len(tasks) = desired_qty

\* _wait_on_tasks, lines 301-313: break, or sleep and poll again; `tasks` is
\* assigned anew at the top of the loop before it is read, so the sleeping
\* state does not keep the last observation
WaitCheck ==
    /\ pc = "check"
    /\ UNCHANGED <<service_arns, old_tasks, stopCalls>>
    /\ IF Converged
       THEN /\ Exit(0, "complete")
            /\ UNCHANGED <<running, tasks, describeCalls>>
       ELSE /\ pc' = "wait"
            /\ running' = <<>>
            /\ tasks' = <<>>
            /\ describeCalls' = <<>>
            /\ UNCHANGED <<exit_code, outcome>>
    /\ UNCHANGED <<args, image, redeploying, service_arn, desired_qty, current,
                   task_definition, calls, registerCalls, updateCalls,
                   response, fetched, task_arns>>

Next ==
    \/ ParseImage
    \/ GetServiceArn
    \/ DescribeService
    \/ GetTaskDefinition
    \/ UpdateService
    \/ ListTasks
    \/ DescribeTasks
    \/ WaitCheck

Spec == Init /\ [][Next]_vars

(***************************************************************************)
(* The Registrar alone: _save_task_definition applied to a definition      *)
(* holding any subset of the server-assigned keys                          *)
(***************************************************************************)
RegistrarKeys == ServerKeys \cup {"cpu", "volumes"}

RegistrarInput(cds, keys) ==
    [k \in {"family", "containerDefinitions"} \cup keys |->
        CASE k = "containerDefinitions" -> cds
          [] k = "taskDefinitionArn" -> CurrentArn
          [] k = "family" -> "web"
          [] OTHER -> k]

InitRegistrar ==
    /\ args = [image |-> ImgA1, service |-> ServiceName, force |-> TRUE,
               redeploy |-> FALSE, wait |-> FALSE, only_new |-> FALSE]
    /\ image = parse_image(ImgA1)
    /\ redeploying = TRUE
    /\ service_arn = ArnWeb
    /\ desired_qty = 1
    /\ \E cds \in {<<CdA1>>, <<CdB1, CdA1>>}, keys \in SUBSET RegistrarKeys :
          /\ current = RegistrarInput(cds, keys)
          /\ fetched = RegistrarInput(cds, keys)
    /\ task_definition = ""
    /\ pc = "save"
    /\ exit_code = NoExit
    /\ outcome = ""
    /\ calls = <<"list_services", "describe_services",
                 "describe_task_definition">>
    /\ registerCalls = <<>>
    /\ updateCalls = <<>>
    /\ response = ""
    /\ running = <<>>
    /\ task_arns = <<>>
    /\ tasks = <<>>
    /\ service_arns = <<>>
    /\ describeCalls = <<>>
    /\ old_tasks = <<>>
    /\ stopCalls = <<>>

Register ==
    /\ pc = "save"
    /\ UNCHANGED <<service_arns, describeCalls, old_tasks, stopCalls>>
    /\ SaveTaskDefinition(current)
    /\ UNCHANGED <<args, image, redeploying, service_arn, desired_qty,
                   updateCalls, response, fetched, running, task_arns, tasks>>

NextRegistrar == Register

SpecRegistrar == InitRegistrar /\ [][NextRegistrar]_vars

(***************************************************************************)
(* The parser alone: ECSPipeline(args) up to parse_image, for any IMAGE    *)
(* argument over a small alphabet and for the images of src/tests.py       *)
(***************************************************************************)
MaxImageLen == 6

ParserAlphabet == {"a", "R", "1", "/", ":"}

Strings(n) == UNION {[1..k -> ParserAlphabet] : k \in 0..n}

\* the images of TestImageParsing.test_parsing_expectations
ImgAlpine == <<"a", "l", "p", "i", "n", "e">>
ImgAlpine37 == <<"a", "l", "p", "i", "n", "e", ":", "3", ".", "7">>
ImgAweberAlpine ==
    <<"d", "o", "c", "k", "e", "r", ".", "a", "w", "e", "b", "e",
          "r", ".", "i", "o", "/", "_", "/", "a", "l", "p", "i", "n",
          "e", ":", "3", ".", "7">>
ImgAnabroker010 ==
    <<"d", "o", "c", "k", "e", "r", ".", "a", "w", "e", "b", "e",
          "r", ".", "i", "o", "/", "p", "s", "e", "/", "a", "n", "a",
          "b", "r", "o", "k", "e", "r", ":", "0", ".", "1", ".", "0">>
ImgAnabroker8000 ==
    <<"d", "o", "c", "k", "e", "r", ".", "a", "w", "e", "b", "e",
          "r", ".", "i", "o", ":", "8", "0", "0", "0", "/", "p", "s",
          "e", "/", "a", "n", "a", "b", "r", "o", "k", "e", "r", ":",
          "l", "a", "t", "e", "s", "t">>
TestImages == {ImgAlpine, ImgAlpine37, ImgAweberAlpine, ImgAnabroker010,
               ImgAnabroker8000}

ImgPort == <<"a", ":", "1", "/", "a", "/", "a">>
ImgPortTag == <<"a", ".", "b", ":", "1", "2", "/", "a", "-", "b", "/", "c",
      "_", "d", ":", "R", ".", "1">>
ImgPortOneSegment == <<"a", ":", "1", "/", "a", ":", "1">>

ParserInputs ==
    Strings(MaxImageLen) \cup TestImages
        \cup {ImgEmpty, ImgTag127, ImgTag128, ImgPort, ImgPortTag,
              ImgPortOneSegment, ImgBad}

InitParser ==
    /\ args \in [image : ParserInputs, service : {ServiceName},
                 force : {FALSE}, redeploy : {FALSE},
                 wait : {FALSE}, only_new : {FALSE}]
    /\ image = NoImage
    /\ redeploying = FALSE
    /\ service_arn = <<>>
    /\ desired_qty = 0
    /\ current = NoDefinition
    /\ fetched = NoDefinition
    /\ task_definition = ""
    /\ pc = "parse_image"
    /\ exit_code = NoExit
    /\ outcome = ""
    /\ calls = <<>>
    /\ registerCalls = <<>>
    /\ updateCalls = <<>>
    /\ response = ""
    /\ running = <<>>
    /\ task_arns = <<>>
    /\ tasks = <<>>
    /\ service_arns = <<>>
    /\ describeCalls = <<>>
    /\ old_tasks = <<>>
    /\ stopCalls = <<>>

NextParser == ParseImage

SpecParser == InitParser /\ [][NextParser]_vars

(***************************************************************************)
(* The legacy module src/ecs_pipeline_deploy.py: _restart_tasks, as        *)
(* deploy_test calls it once the service is found                          *)
(***************************************************************************)
\* sorted(response['taskArns']) for the set of task ARNs that list_tasks
\* returned; TaskArns is in sorted order
SortedTaskArns(listed) ==
    LET F[i \in 0..Len(TaskArns)] ==
            IF i = 0 THEN <<>>
            ELSE IF TaskArns[i] \in listed THEN Append(F[i - 1], TaskArns[i])
            ELSE F[i - 1]
    IN F[Len(TaskArns)]

\* what list_tasks can answer: at most MaxTasks running tasks
RunningSets == {S \in SUBSET Range(TaskArns) : Cardinality(S) <= MaxTasks}

InitRestart ==
    /\ args \in [service : {ServiceName}, wait_for_replacement : BOOLEAN]
    /\ image = NoImage
    /\ redeploying = FALSE
    /\ service_arn = ArnWeb
    /\ desired_qty = 0
    /\ current = NoDefinition
    /\ fetched = NoDefinition
    /\ task_definition = ""
    /\ pc = "restart"
    /\ exit_code = NoExit
    /\ outcome = ""
    /\ calls = <<"list_services">>
    /\ registerCalls = <<>>
    /\ updateCalls = <<>>
    /\ response = ""
    /\ running = <<>>
    /\ task_arns = <<>>
    /\ tasks = <<>>
    /\ service_arns = <<>>
    /\ describeCalls = <<>>
    /\ old_tasks = <<>>
    /\ stopCalls = <<>>

\* the for loop goes on to the next task, or _restart_tasks returns and the
\* run is over
NextTask(stopped) ==
    IF stopped < Len(old_tasks)
    THEN /\ pc' = "stop"
         /\ UNCHANGED <<exit_code, outcome>>
    ELSE Exit(0, "restarted")

\* line 198: old_tasks = _list_running_tasks(...)
RestartList ==
    /\ pc = "restart"
    /\ calls' = Append(calls, "list_tasks")
    /\ \E listed \in RunningSets :
          /\ old_tasks' = SortedTaskArns(listed)
          /\ task_arns' = SortedTaskArns(listed)
          /\ IF listed # {}
             THEN /\ pc' = "stop"
                  /\ UNCHANGED <<exit_code, outcome>>
             ELSE Exit(0, "restarted")
    /\ UNCHANGED <<args, image, redeploying, service_arn, desired_qty, current,
                   task_definition, registerCalls, updateCalls, response,
                   fetched, running, tasks, service_arns, describeCalls,
                   stopCalls>>

\* a loop that stops the first task again and again
TaskToStopFirst == old_tasks[1]

\* `for task in old_tasks`: the task of the current iteration
TaskToStop == old_tasks[Len(stopCalls) + 1]

\* lines 202-203: _stop_task; a ClientError ends the run in main, lines 114-116
StopTask ==
    /\ pc = "stop"
    /\ calls' = Append(calls, "stop_task")
    /\ stopCalls' = Append(stopCalls, TaskToStop)
    /\ \/ Exit(1, "ClientError")
       \/ IF args.wait_for_replacement
          THEN /\ pc' = "replace"
               /\ UNCHANGED <<exit_code, outcome>>
          ELSE NextTask(Len(stopCalls) + 1)
    /\ UNCHANGED <<args, image, redeploying, service_arn, desired_qty, current,
                   task_definition, registerCalls, updateCalls, response,
                   fetched, running, task_arns, tasks, service_arns,
                   describeCalls, old_tasks>>

\* a test that is content when the stopped task is gone
ReplacedWhenGone(current_tasks) ==
    ~In(stopCalls[Len(stopCalls)], current_tasks)

\* lines 207-209: the stopped task is gone and as many tasks run as before
Replaced(current_tasks) ==
    /\ Len(current_tasks) = Len(old_tasks)
    /\ ~In(stopCalls[Len(stopCalls)], current_tasks)

\* lines 205-211: one turn of `while wait_for_replacement`
PollReplacement ==
    /\ pc = "replace"
    /\ Count("list_tasks") < MaxPolls + 1
    /\ calls' = Append(calls, "list_tasks")
    /\ \E listed \in RunningSets :
          /\ task_arns' = SortedTaskArns(listed)
          /\ IF Replaced(SortedTaskArns(listed))
             THEN NextTask(Len(stopCalls))
             ELSE UNCHANGED <<pc, exit_code, outcome>>
    /\ UNCHANGED <<args, image, redeploying, service_arn, desired_qty, current,
                   task_definition, registerCalls, updateCalls, response,
                   fetched, running, tasks, service_arns, describeCalls,
                   old_tasks, stopCalls>>

NextRestart ==
    \/ RestartList
    \/ StopTask
    \/ PollReplacement

SpecRestart == InitRestart /\ [][NextRestart]_vars

(***************************************************************************)
(* Both programs of the repository: a run of ecs_pipeline_deploy.cli, or   *)
(* of the legacy module's rolling restart                                   *)
(***************************************************************************)
InitTools == Init \/ InitRestart

NextTools == Next \/ NextRestart

SpecTools == InitTools /\ [][NextTools]_vars

(***************************************************************************)
(* The Resolver and the Transformer alone: _get_task_definition on a       *)
(* fetched definition whose containers carry log options                   *)
(***************************************************************************)
ImgB2 == <<"b", ":", "2">>

\* a container whose log tag names another image's version, one with a log
\* configuration that has no options, and one whose log tag holds its own
\* tag twice
CdB2LogA1 == [image |-> ImgB2,
              logConfiguration |-> [options |-> [tag |-> LogTagA1]]]
CdA1NoOptions == [image |-> ImgA1, logConfiguration |-> [logDriver |-> "json"]]
CdA1Twice == [image |-> ImgA1,
              logConfiguration |->
                  [options |-> [tag |-> <<"1", "-", "a", "-", "1">>]]]

TransformerPool == {CdA1, CdB1, CdB2LogA1, CdA1NoOptions, CdA1Twice}

TransformerDefinitions ==
    {TaskDefinition(cds, ExtraKeys) :
        cds \in UNION {[1..n -> TransformerPool] : n \in 1..MaxContainers}}

InitTransformer ==
    /\ args \in [image : {ImgA1, ImgA2, ImgB1}, service : {ServiceName},
                 force : BOOLEAN, redeploy : BOOLEAN,
                 wait : {FALSE}, only_new : {FALSE}]
    /\ image = parse_image(args.image)
    /\ redeploying = FALSE
    /\ service_arn = ArnWeb
    /\ desired_qty = 1
    /\ current \in TransformerDefinitions
    /\ fetched = current
    /\ task_definition = ""
    /\ pc = "get_task_definition"
    /\ exit_code = NoExit
    /\ outcome = ""
    /\ calls = <<"list_services", "describe_services",
                 "describe_task_definition">>
    /\ registerCalls = <<>>
    /\ updateCalls = <<>>
    /\ response = ""
    /\ running = <<>>
    /\ task_arns = <<>>
    /\ tasks = <<>>
    /\ service_arns = <<>>
    /\ describeCalls = <<>>
    /\ old_tasks = <<>>
    /\ stopCalls = <<>>

NextTransformer == GetTaskDefinition

SpecTransformer == InitTransformer /\ [][NextTransformer]_vars

(***************************************************************************)
(* _list_running_tasks alone, on lists of running tasks that are longer    *)
(* than one describe_tasks request                                         *)
(***************************************************************************)
\* how many running tasks list_tasks reports; task ARNs are numbered here
PollSizes == {0, 1, BatchSize, BatchSize + 1, 2 * BatchSize + 1}

\* the pages of list_tasks for n tasks: the two halves of the list
Pages(n) ==
    <<[i \in 1..(n \div 2) |-> i],
      [i \in 1..(n - (n \div 2)) |-> (n \div 2) + i]>>

\* the task definition a numbered task runs: a deployment half way through
DefinitionOf(arn) == IF arn % 2 = 0 THEN NewArn ELSE CurrentArn

InitPoll ==
    /\ args = [image |-> ImgA1, service |-> ServiceName, force |-> FALSE,
               redeploy |-> TRUE, wait |-> TRUE, only_new |-> FALSE]
    /\ image = parse_image(ImgA1)
    /\ redeploying = TRUE
    /\ service_arn = ArnWeb
    /\ desired_qty = 1
    /\ current = TaskDefinition(<<CdA1>>, ExtraKeys)
    /\ fetched = TaskDefinition(<<CdA1>>, ExtraKeys)
    /\ task_definition = CurrentArn
    /\ pc = "wait"
    /\ exit_code = NoExit
    /\ outcome = ""
    /\ calls = <<"list_services", "describe_services",
                 "describe_task_definition", "update_service">>
    /\ registerCalls = <<>>
    /\ updateCalls = <<[service |-> ArnWeb, taskDefinition |-> CurrentArn,
                        forceNewDeployment |-> TRUE]>>
    /\ response = CurrentArn
    /\ running = <<>>
    /\ task_arns = <<>>
    /\ tasks = <<>>
    /\ service_arns = <<>>
    /\ describeCalls = <<>>
    /\ old_tasks = <<>>
    /\ stopCalls = <<>>

\* lines 211-222: task_arns.extend(page['taskArns']) for each page
ListTaskPages ==
    /\ pc = "wait"
    /\ Count("list_tasks") < 1
    /\ calls' = Append(calls, "list_tasks")
    /\ \E n \in PollSizes :
          /\ task_arns' = Pages(n)[1] \o Pages(n)[2]
          /\ running' = [i \in 1..n |-> <<i, DefinitionOf(i)>>]
          /\ pc' = IF n = 0 THEN "check" ELSE "describe"
    /\ tasks' = <<>>
    /\ describeCalls' = <<>>
    /\ UNCHANGED <<args, image, redeploying, service_arn, desired_qty, current,
                   task_definition, exit_code, outcome, registerCalls,
                   updateCalls, response, fetched, service_arns, old_tasks,
                   stopCalls>>

NextPoll ==
    \/ ListTaskPages
    \/ DescribeTasks

SpecPoll == InitPoll /\ [][NextPoll]_vars

(***************************************************************************)
(* _wait_on_tasks on its own: the run has updated the service with --wait  *)
(* and enters the loop; the loop runs on, one step after the other, until  *)
(* it breaks                                                               *)
(***************************************************************************)
InitWait ==
    /\ args \in [image : {ImgA1}, service : {ServiceName}, force : {FALSE},
                 redeploy : {TRUE}, wait : {TRUE}, only_new : BOOLEAN]
    /\ image = parse_image(ImgA1)
    /\ redeploying = TRUE
    /\ service_arn = ArnWeb
    /\ desired_qty \in 0..MaxDesired
    /\ current = TaskDefinition(<<CdA1>>, ExtraKeys)
    /\ fetched = TaskDefinition(<<CdA1>>, ExtraKeys)
    /\ task_definition = CurrentArn
    /\ pc = "wait"
    /\ exit_code = NoExit
    /\ outcome = ""
    /\ calls = <<"list_services", "describe_services",
                 "describe_task_definition", "update_service">>
    /\ registerCalls = <<>>
    /\ updateCalls = <<[service |-> ArnWeb, taskDefinition |-> CurrentArn,
                        forceNewDeployment |-> TRUE]>>
    /\ response = CurrentArn
    /\ running = <<>>
    /\ task_arns = <<>>
    /\ tasks = <<>>
    /\ service_arns = <<>>
    /\ describeCalls = <<>>
    /\ old_tasks = <<>>
    /\ stopCalls = <<>>

NextWait ==
    \/ ListTasks
    \/ DescribeTasks
    \/ WaitCheck

\* the loop is sequential code: whichever step is next is taken
SpecWait == InitWait /\ [][NextWait]_vars /\ WF_vars(NextWait)

(***************************************************************************)
(* Properties                                                              *)
(***************************************************************************)
\* the Resolver has run on the definition that was fetched
Resolved == fetched # NoDefinition /\ pc # "get_task_definition"

Target == parse_image(args.image)

FetchedContainers == fetched["containerDefinitions"]

AllParse ==
    \A i \in 1..Len(FetchedContainers) : CanParse(FetchedContainers[i]["image"])

\* the target is one of the fetched definition's images, compared on
\* registry, name and tag
TargetPresent ==
    /\ CanParse(args.image)
    /\ AllParse
    /\ \E i \in 1..Len(FetchedContainers) :
          parse_image(FetchedContainers[i]["image"]) = Target

\* the containers, in the definition's order, with the target's registry
\* and name
NameMatches ==
    {i \in 1..Len(FetchedContainers) :
        /\ parse_image(FetchedContainers[i]["image"]).registry = Target.registry
        /\ parse_image(FetchedContainers[i]["image"]).name = Target.name}

\* C1: when the target is among the current definition's containers and
\* neither --redeploy nor --force is set, the run ends Aborted(Conflict) with
\* exit code 2, and neither register_task_definition nor update_service is
\* called.
C1_Conflict ==
    (Resolved /\ TargetPresent /\ ~args.redeploy /\ ~args.force) =>
        /\ pc = "exit"
        /\ outcome = "Conflict"
        /\ exit_code = 2
        /\ registerCalls = <<>>
        /\ updateCalls = <<>>

\* C2: when the target is among the current definition's containers and
\* --redeploy is set, the run goes on to update the service to the current
\* task definition identifier, and registers nothing.
C2_Reuse ==
    (Resolved /\ TargetPresent /\ args.redeploy) =>
        /\ registerCalls = <<>>
        /\ task_definition = fetched["taskDefinitionArn"]
        /\ pc # "exit" \/ Len(updateCalls) = 1
        /\ \A i \in 1..Len(updateCalls) :
              updateCalls[i].taskDefinition = fetched["taskDefinitionArn"]

\* C3: when the target is among the current definition's containers and
\* --force is set, the current definition is registered with its containers
\* unchanged and the service is updated to the newly returned identifier.
C3_RegisterModified ==
    (Resolved /\ TargetPresent /\ args.force) =>
        /\ Len(registerCalls) = 1
        /\ registerCalls[1]["containerDefinitions"] = FetchedContainers
        /\ task_definition = NewArn
        /\ task_definition # fetched["taskDefinitionArn"]
        /\ \A i \in 1..Len(updateCalls) :
              updateCalls[i].taskDefinition = NewArn

\* C4: when the target is not among the current containers, then whatever
\* the flags the Transformer is applied to the current definition and what
\* it returns is registered (nothing is, when no container has the target's
\* registry and name); the run never ends in Conflict and never reuses the
\* current identifier.
C4_RegisterNew ==
    (Resolved /\ CanParse(args.image) /\ AllParse /\ ~TargetPresent) =>
        /\ outcome # "Conflict"
        /\ task_definition # fetched["taskDefinitionArn"]
        /\ IF NameMatches = {}
           THEN registerCalls = <<>> /\ updateCalls = <<>>
           ELSE registerCalls =
                   <<_save_task_definition(
                        _modify_task_definition(fetched, Target).val)>>

\* C5: when the response to update_service names another task definition
\* than the one requested, the run ends with a non-zero exit code.
C5_UpdateConfirmation ==
    (pc = "exit" /\ Len(updateCalls) = 1
        /\ response # updateCalls[1].taskDefinition) =>
        exit_code # 0

\* the running tasks that list_tasks reported at the current poll converge
\* on the target
RunningConverged ==
    /\ Cardinality({i \in 1..Len(running) : running[i][2] = task_definition})
          = desired_qty
    /\ args.only_new => Len(running) = desired_qty

\* C6: at every poll the wait loop exits if and only if the number of
\* running tasks of the target definition equals desired_qty and, with
\* --only-new, the number of all running tasks equals desired_qty too; so a
\* run that waited has ended only on such an observation.
C6_WaiterConvergence ==
    /\ [][pc = "check" => ((pc' = "exit") <=> RunningConverged)]_vars
    /\ []((pc = "exit" /\ Count("list_tasks") > 0) => RunningConverged)

\* C6 witness: with --only-new the loop went past a first poll and exited at
\* the second
C6_Witness ==
    /\ pc = "exit"
    /\ outcome = "complete"
    /\ args.only_new
    /\ desired_qty = 1
    /\ Count("list_tasks") = 2

\* C7: the container the Transformer rewrites is the first one, in the order
\* of the definition's containerDefinitions, with the target's registry and
\* name; its image becomes the rendered target and every other container
\* definition is registered as it was fetched.
C7_FirstMatchInDefinitionOrder ==
    (Len(registerCalls) = 1 /\ ~redeploying) =>
        LET sent == registerCalls[1]["containerDefinitions"]
        IN /\ Len(sent) = Len(FetchedContainers)
           /\ NameMatches # {}
           /\ \A i \in 1..Len(sent) :
                 IF i = Lowest(NameMatches)
                 THEN sent[i]["image"] = image_to_str(Target)
                 ELSE sent[i] = FetchedContainers[i]

SixServerKeys == {"taskDefinitionArn", "revision", "status",
                  "requiresAttributes", "compatibilities",
                  "requiresCompatibilities"}

\* C8: the arguments of register_task_definition hold none of the six
\* server-assigned keys, and hold every other key of the input definition
\* with its value.
C8_RegistrarStripsServerFields ==
    \A i \in 1..Len(registerCalls) :
        /\ DOMAIN registerCalls[i] \cap SixServerKeys = {}
        /\ DOMAIN registerCalls[i] = DOMAIN fetched \ SixServerKeys
        /\ \A k \in DOMAIN registerCalls[i] : registerCalls[i][k] = fetched[k]

\* C8 witness: a definition holding all six keys and two more was registered
C8_Witness ==
    /\ Len(registerCalls) = 1
    /\ SixServerKeys \cup {"cpu", "volumes"} \subseteq DOMAIN fetched

C10_WaitIffRequested ==
    /\ \A i \in 1..Len(calls) :
          calls[i] \in {"list_tasks", "describe_tasks"} =>
             /\ args.wait
             /\ Len(updateCalls) = 1
             /\ response = updateCalls[1].taskDefinition
             /\ \E j \in 1..i - 1 : calls[j] = "update_service"
    /\ (pc = "exit" /\ outcome = "complete" /\ ~args.wait) =>
          Count("list_tasks") = 0 /\ Count("describe_tasks") = 0
    /\ (pc = "exit" /\ outcome = "complete" /\ args.wait) =>
          Count("list_tasks") >= 1

\* C10 witness: an update was confirmed without --wait and the run is done
C10_Witness ==
    /\ pc = "exit"
    /\ outcome = "complete"
    /\ ~args.wait
    /\ Len(updateCalls) = 1
    /\ response = task_definition

\* the place of an API call in the order list-services, describe-service,
\* describe-task-definition, register, update-service, polling
CallRank(name) ==
    CASE name = "list_services" -> 1
      [] name = "describe_services" -> 2
      [] name = "describe_task_definition" -> 3
      [] name = "register_task_definition" -> 4
      [] name = "update_service" -> 5
      [] name \in {"list_tasks", "describe_tasks"} -> 6
      [] OTHER -> 0

\* the calls made so far are in the order of the Orchestrator's states, and
\* none of the calls before the polling is made twice; register is the only
\* one that may be left out
CallsInOrder ==
    /\ \A i \in 1..Len(calls) : CallRank(calls[i]) > 0
    /\ \A i, j \in 1..Len(calls) :
          i < j => /\ CallRank(calls[i]) <= CallRank(calls[j])
                   /\ CallRank(calls[i]) < 6 =>
                         CallRank(calls[i]) < CallRank(calls[j])
    /\ \A j \in 1..Len(calls) :
          \A r \in {1, 2, 3, 5} :
              r < CallRank(calls[j]) => \E i \in 1..j - 1 : CallRank(calls[i]) = r

\* the run is over in one of the final states of the Orchestrator
EndedDone == pc = "exit" /\ outcome = "complete" /\ exit_code = 0
EndedAborted == pc = "exit" /\ outcome = "Conflict" /\ exit_code = 2
EndedFailed == pc = "exit" /\ outcome # "Conflict" /\ exit_code = 1

\* C11: the API calls of a run are made in the order list-services,
\* describe-service, describe-task-definition, optional register,
\* update-service, optional polling, none of the first five twice;
\* update_service is not called before the Resolver has decided; and a run
\* that is over is Done, Aborted(Conflict) with exit code 2, or Failed with
\* exit code 1.
C11_StateOrder ==
    /\ CallsInOrder
    /\ Count("update_service") > 0 => (Resolved /\ task_definition # "")
    /\ pc = "exit" => (EndedDone \/ EndedAborted \/ EndedFailed)

\* name is the service name of arn, or its beginning
NameOrPrefix(arn, name) ==
    /\ Len(name) <= Len(LastPart(arn))
    /\ SubSeq(LastPart(arn), 1, Len(name)) = name

\* C12 as claimed: a run fails with ServiceNotFound only when no listed
\* service ARN has a service name that is the requested name or begins with
\* it; it then ends with exit code 1 having made no call but list_services.
C12_LocatedByNameOrPrefix ==
    (pc = "exit" /\ outcome = "ServiceNotFound") =>
        /\ \A i \in 1..Len(service_arns) :
              ~NameOrPrefix(service_arns[i], args.service)
        /\ exit_code = 1
        /\ calls = <<"list_services">>

\* C12 as amended: a run fails with ServiceNotFound exactly when no listed
\* service ARN ends, after its last "/", in the requested name; it then ends
\* with exit code 1 having made no call but list_services, and a located
\* service is the first listed ARN, in sorted order, with that very name.
C12_LocatedByExactName ==
    /\ (pc = "exit" /\ outcome = "ServiceNotFound") =>
          /\ \A i \in 1..Len(service_arns) :
                LastPart(service_arns[i]) # args.service
          /\ exit_code = 1
          /\ calls = <<"list_services">>
          /\ registerCalls = <<>>
          /\ updateCalls = <<>>
    /\ service_arn # <<>> => LastPart(service_arn) = args.service
    /\ Count("describe_services") > 0 => service_arn # <<>>

\* C12 witness: the only listed service has the requested name as a prefix
\* of its own, and the run has failed with ServiceNotFound
C12_Witness ==
    /\ pc = "exit"
    /\ outcome = "ServiceNotFound"
    /\ service_arns = <<ArnWeb2>>
    /\ args.service = ServiceName

\* C13: when the target is not among the current containers and none of
\* them has the target's registry and name, the run has ended with
\* ImageNotFound and a non-zero exit code, and neither
\* register_task_definition nor update_service was called.
C13_ImageNotFound ==
    (Resolved /\ CanParse(args.image) /\ AllParse /\ ~TargetPresent
        /\ NameMatches = {}) =>
        /\ pc = "exit"
        /\ outcome = "ImageNotFound"
        /\ exit_code # 0
        /\ registerCalls = <<>>
        /\ updateCalls = <<>>

\* C14: register_task_definition is called at most once and update_service
\* at most once in a run, whatever the API answers; a run that has gone
\* through the update step has called update_service exactly once.
C14_AtMostOnce ==
    /\ Len(registerCalls) <= 1
    /\ Count("register_task_definition") = Len(registerCalls)
    /\ Len(updateCalls) <= 1
    /\ Count("update_service") = Len(updateCalls)
    /\ pc = "deploy" => updateCalls = <<>>
    /\ (task_definition # "" /\ pc # "deploy") => Len(updateCalls) = 1

\* C14 witness: a definition was registered, the answer to update_service
\* named another one, and the run is over after that one update
C14_Witness ==
    /\ pc = "exit"
    /\ Len(registerCalls) = 1
    /\ Len(updateCalls) = 1
    /\ response # updateCalls[1].taskDefinition

\* the last and the first index of character c in s, 0 when there is none
LastIndexOf(s, c) ==
    LET I == {i \in 1..Len(s) : s[i] = c}
    IN IF I = {} THEN 0 ELSE CHOOSE i \in I : \A j \in I : j <= i

FirstIndexOf(s, c) ==
    LET I == {i \in 1..Len(s) : s[i] = c}
    IN IF I = {} THEN 0 ELSE CHOOSE i \in I : \A j \in I : i <= j

\* s ends in ":tag": its last colon comes after its last slash
HasTagSuffix(s) == LastIndexOf(s, ":") > LastIndexOf(s, "/")

\* s without its ":tag" suffix, and the tag it stands for
PathOf(s) ==
    IF HasTagSuffix(s) THEN SubSeq(s, 1, LastIndexOf(s, ":") - 1) ELSE s

TagOf(s) ==
    IF HasTagSuffix(s) THEN SubSeq(s, LastIndexOf(s, ":") + 1, Len(s))
    ELSE Latest

\* the number of "/"-separated segments after the first one
SegmentsAfterFirst(path) == Cardinality({i \in 1..Len(path) : path[i] = "/"})

\* the first segment is the registry when two or more segments follow it
RegistryOf(s) ==
    IF SegmentsAfterFirst(PathOf(s)) >= 2
    THEN SubSeq(PathOf(s), 1, FirstIndexOf(PathOf(s), "/") - 1)
    ELSE None

NameOf(s) ==
    IF SegmentsAfterFirst(PathOf(s)) >= 2
    THEN SubSeq(PathOf(s), FirstIndexOf(PathOf(s), "/") + 1, Len(PathOf(s)))
    ELSE PathOf(s)

\* 'docker.aweber.io:8000' and 'pse/anabroker'
HostAweber8000 ==
    <<"d", "o", "c", "k", "e", "r", ".", "a", "w", "e", "b", "e", "r", ".",
      "i", "o", ":", "8", "0", "0", "0">>
NamePseAnabroker ==
    <<"p", "s", "e", "/", "a", "n", "a", "b", "r", "o", "k", "e", "r">>

\* the IMAGE argument was parsed
Parsed == pc = "get_service_arn"

\* C15: for every image string that parses and does not begin with "/", the
\* tag is the ":tag" suffix, or 'latest' when there is none; the first
\* "/"-separated segment is the registry when two or more segments follow
\* it, and otherwise the registry is None and the whole path is the name;
\* 'alpine' gives (None, 'alpine', 'latest') and
\* 'docker.aweber.io:8000/pse/anabroker:latest' gives
\* ('docker.aweber.io:8000', 'pse/anabroker', 'latest').
C15_ImageParsing ==
    /\ (Parsed /\ args.image[1] # "/") =>
          image = Image(RegistryOf(args.image), NameOf(args.image),
                        TagOf(args.image))
    /\ (pc # "parse_image" /\ args.image = ImgAlpine) =>
          Parsed /\ image = Image(None, ImgAlpine, Latest)
    /\ (pc # "parse_image" /\ args.image = ImgAnabroker8000) =>
          /\ Parsed
          /\ image = Image(HostAweber8000, NamePseAnabroker, Latest)

\* C15 witness: a host with a port before a two-segment path was parsed as
\* the registry, and the tag was defaulted
C15_Witness ==
    /\ Parsed
    /\ args.image = ImgPort
    /\ image = Image(<<"a", ":", "1">>, <<"a", "/", "a">>, Latest)

\* the last n characters of s
Suffix(s, n) == SubSeq(s, Len(s) - n + 1, Len(s))

\* s is of the form registry/name:tag or name:tag
Canonical(s) == HasTagSuffix(s) /\ s[1] # "/"

\* C16: every image that parse returned renders to a string that parses
\* back to it; the rendered string ends in ":" and the tag, ':latest' when
\* the tag was defaulted; and an image string of the form registry/name:tag
\* or name:tag that parses is rendered back as it was given.
C16_RoundTrip ==
    Parsed =>
        /\ CanParse(image_to_str(image))
        /\ parse_image(image_to_str(image)) = image
        /\ Suffix(image_to_str(image), Len(image.tag) + 1) = <<":">> \o image.tag
        /\ ~HasTagSuffix(args.image) =>
              Suffix(image_to_str(image), 7) = <<":">> \o Latest
        /\ Canonical(args.image) => image_to_str(image) = args.image

\* C16 witness: 'alpine' was parsed, and it renders to 'alpine:latest'
C16_Witness ==
    /\ Parsed
    /\ args.image = ImgAlpine
    /\ image_to_str(image) = ImgAlpine \o <<":">> \o Latest
    /\ parse_image(ImgAlpine \o <<":">> \o Latest) = image

\* the IMAGE argument is the empty string or has a tag of more than 127
\* characters
EmptyOrLongTag ==
    \/ args.image = <<>>
    \/ /\ HasTagSuffix(args.image)
       /\ Len(TagOf(args.image)) > 127

\* C17: the empty string and a string with a tag of more than 127
\* characters do not parse, and a run whose image does not parse has ended
\* with MalformedImage and exit code 1 without any call of the ECS API.
C17_MalformedImage ==
    pc # "parse_image" =>
        /\ EmptyOrLongTag => ~Parsed /\ image = NoImage
        /\ (EmptyOrLongTag \/ image = NoImage) =>
              /\ pc = "exit"
              /\ outcome = "MalformedImage"
              /\ exit_code = 1
              /\ calls = <<>>
              /\ registerCalls = <<>>
              /\ updateCalls = <<>>

\* C17 witness: a run given a tag of 128 characters is over with exit code 1
C17_Witness ==
    /\ pc = "exit"
    /\ exit_code = 1
    /\ Len(args.image) = 130
    /\ Len(TagOf(args.image)) = 128

\* the calls that only read
ReadCalls == {"list_services", "describe_services",
              "describe_task_definition", "list_tasks", "describe_tasks"}

\* the run is one of the legacy module
Legacy == "wait_for_replacement" \in DOMAIN args

\* C18 as claimed: every call a run makes either reads, or is
\* register_task_definition or update_service; no task is stopped.
C18_ReadAndUpdateOnly ==
    /\ \A i \in 1..Len(calls) :
          calls[i] \in ReadCalls \cup {"register_task_definition",
                                       "update_service"}
    /\ stopCalls = <<>>

\* C18 as amended: a run of ecs_pipeline_deploy.cli makes no call but reads,
\* register_task_definition and update_service, and stops no task; a run of
\* the legacy module's _restart_tasks makes no call but reads and stop_task,
\* and the tasks it has stopped are the first ones, in order, of the running
\* list it read at its start.
C18_OnlyLegacyStopsTasks ==
    /\ ~Legacy =>
          /\ \A i \in 1..Len(calls) :
                calls[i] \in ReadCalls \cup {"register_task_definition",
                                             "update_service"}
          /\ stopCalls = <<>>
    /\ Legacy =>
          /\ \A i \in 1..Len(calls) : calls[i] \in ReadCalls \cup {"stop_task"}
          /\ Count("stop_task") = Len(stopCalls)
          /\ Len(stopCalls) <= Len(old_tasks)
          /\ stopCalls = SubSeq(old_tasks, 1, Len(stopCalls))

\* C18 witness: the legacy restart is over and has stopped both tasks that
\* were running
C18_Witness ==
    /\ Legacy
    /\ pc = "exit"
    /\ Len(old_tasks) = 2
    /\ stopCalls = old_tasks
    /\ Count("stop_task") = 2

\* the log tag option of a container definition
LogTagOf(cd) == cd["logConfiguration"]["options"]["tag"]

\* sent is the fetched container cd rewritten to the target: the image is
\* the rendered target, a log tag option has cd's own tag replaced by the
\* target's, no log tag option is added, and nothing else differs
RewrittenToTarget(cd, sent) ==
    /\ sent["image"] = image_to_str(Target)
    /\ HasLogTag(sent) <=> HasLogTag(cd)
    /\ HasLogTag(cd) =>
          /\ LogTagOf(sent) =
                Replace(LogTagOf(cd), parse_image(cd["image"]).tag, Target.tag)
          /\ sent = [cd EXCEPT !["image"] = sent["image"],
                               !["logConfiguration"]["options"]["tag"] =
                                   LogTagOf(sent)]
    /\ ~HasLogTag(cd) => sent = [cd EXCEPT !["image"] = sent["image"]]

\* C19: in the definition the Transformer hands to the Registrar, a
\* container whose image was rewritten has, when it had a log tag option,
\* that option with its own old tag replaced by the target's tag, and has no
\* log tag option when it had none; every other container is as it was
\* fetched, log options included.
C19_LogTagRewrite ==
    (Len(registerCalls) = 1 /\ ~redeploying) =>
        LET sent == registerCalls[1]["containerDefinitions"]
        IN /\ Len(sent) = Len(FetchedContainers)
           /\ \A i \in 1..Len(sent) :
                 IF sent[i]["image"] # FetchedContainers[i]["image"]
                 THEN RewrittenToTarget(FetchedContainers[i], sent[i])
                 ELSE sent[i] = FetchedContainers[i]

\* C20: every describe_tasks request of a _list_running_tasks call carries
\* at least one and at most 100 task ARNs, and when the call returns its
\* result holds, for each ARN that list_tasks gave, exactly one pair, the
\* one of that task, whatever the order in which the tasks were described.
C20_DescribeBatching ==
    /\ Len(describeCalls) <= Count("describe_tasks")
    /\ \A i \in 1..Len(describeCalls) :
          /\ Len(describeCalls[i]) >= 1
          /\ Len(describeCalls[i]) <= 100
          /\ Range(describeCalls[i]) \subseteq {running[j][1] : j \in 1..Len(running)}
    /\ pc = "check" =>
          /\ Len(tasks) = Len(running)
          /\ Range(tasks) = Range(running)
          /\ Cardinality({tasks[j][1] : j \in 1..Len(tasks)}) = Len(running)

\* C20 witness: 201 tasks were listed and described in three requests, in
\* another order than they were listed
C20_Witness ==
    /\ pc = "check"
    /\ Len(running) = 201
    /\ Len(describeCalls) = 3
    /\ Len(tasks) = 201
    /\ tasks # running

\* C21: every call of _list_running_tasks terminates whatever describe_tasks
\* answers: each describe_tasks request takes at least one ARN off the list
\* that is left to describe, so that no request of one call is followed by
\* the same request again.
C21_PollTerminates ==
    \A i \in 1..(Len(describeCalls) - 1) :
        describeCalls[i + 1] # describeCalls[i]

\* the tasks that list_tasks reported at the current poll are exactly
\* desired_qty tasks of the target definition and no others
RunningExactlyTarget ==
    /\ pc \in {"describe", "check"}
    /\ Len(running) = desired_qty
    /\ \A i \in 1..Len(running) : running[i][2] = task_definition

\* the number of running tasks of the target definition at the current poll
RunningOfTarget ==
    Cardinality({i \in 1..Len(running) : running[i][2] = task_definition})

\* C22: a poll at which the running tasks are exactly desired_qty tasks of
\* the target definition and no others is followed by the exit of the wait
\* loop and the end of the run as Done; and a poll at which the number of
\* running tasks of the target definition differs from desired_qty, below or
\* above, is followed by the sleep before the next poll, the run not ending.
C22_WaiterLiveness ==
    /\ RunningExactlyTarget ~> EndedDone
    /\ [][(pc = "check" /\ RunningOfTarget # desired_qty) =>
             (pc' = "wait" /\ exit_code' = NoExit /\ outcome' = "")]_vars
    /\ [](pc = "wait" => exit_code = NoExit)
    /\ (pc = "wait" /\ Count("list_tasks") < MaxPolls)
          ~> (pc \in {"describe", "check"})

\* C22 witness: without --only-new the loop slept after a first poll and
\* ended at the second, which showed one task, of the target, one being
\* desired
C22_Witness ==
    /\ EndedDone
    /\ ~args.only_new
    /\ desired_qty = 1
    /\ Count("list_tasks") = 2
    /\ Len(running) = 1
    /\ running[1][2] = task_definition

\* the step calls update_service
Updating ==
    /\ Len(calls') = Len(calls) + 1
    /\ calls'[Len(calls')] = "update_service"

\* desired_qty and task_definition are the values fixed before update_service
\* was called: the call itself and every step after it leave them alone, the
\* target is the definition that was sent, and describe_services is not
\* called a second time
Snapshot ==
    /\ [][(Updating \/ Count("update_service") > 0) =>
             UNCHANGED <<desired_qty, task_definition>>]_vars
    /\ [](Count("update_service") > 0 =>
             /\ task_definition = updateCalls[1].taskDefinition
             /\ Count("describe_services") = 1)

\* C23 as claimed: the wait loop compares against the snapshot taken before
\* update_service, and with desired_qty = 0 and no --only-new it exits at its
\* first poll whatever tasks are running.
C23_ZeroDesiredExitsAtOnce ==
    /\ Snapshot
    /\ [][(pc = "check" /\ desired_qty = 0 /\ ~args.only_new) =>
             pc' = "exit"]_vars

\* C23: the wait loop compares against the snapshot taken before
\* update_service, and with desired_qty = 0 and no --only-new it exits at a
\* poll if and only if no running task is of the target definition, whatever
\* other tasks are running.
C23_ZeroDesiredExitsWithoutTarget ==
    /\ Snapshot
    /\ [][(pc = "check" /\ desired_qty = 0 /\ ~args.only_new) =>
             (pc' = "exit" <=> RunningOfTarget = 0)]_vars

\* C23 witness: with desired_qty = 0 and no --only-new the loop has ended at
\* its first poll while two tasks of another definition were running
C23_Witness ==
    /\ EndedDone
    /\ desired_qty = 0
    /\ ~args.only_new
    /\ Count("list_tasks") = 1
    /\ Len(running) = 2
    /\ RunningOfTarget = 0

\* the task ARNs of s are in ascending order, none twice
Ascending(s) ==
    \A i \in 1..(Len(s) - 1) :
        FirstIndexOf(TaskArns, s[i]) < FirstIndexOf(TaskArns, s[i + 1])

\* the step calls stop_task for another task than the first
StopsNext == Len(stopCalls') > Len(stopCalls) /\ stopCalls # <<>>

\* C24: in a rolling restart that waits for replacement the initial running
\* list is sorted, the tasks stopped so far are its first tasks in that
\* order, each stopped once; a task after the first is stopped only in the
\* step after a poll that showed as many running tasks as the initial list
\* has and not the task stopped last; and when the restart has completed
\* every task of the initial list has been stopped exactly once.
C24_RollingRestart ==
    /\ [](args.wait_for_replacement =>
             /\ Ascending(old_tasks)
             /\ Len(stopCalls) <= Len(old_tasks)
             /\ \A i \in 1..Len(stopCalls) : stopCalls[i] = old_tasks[i]
             /\ outcome = "restarted" => stopCalls = old_tasks)
    /\ [][(args.wait_for_replacement /\ StopsNext) =>
             /\ Len(stopCalls') = Len(stopCalls) + 1
             /\ calls[Len(calls)] = "list_tasks"
             /\ Len(task_arns) = Len(old_tasks)
             /\ ~In(stopCalls[Len(stopCalls)], task_arns)]_vars

\* C24 witness: two tasks were running, the restart waited for replacement,
\* stopped t1, polled until t1 was gone and two tasks ran, stopped t2 and
\* completed after t2 was replaced in turn
C24_Witness ==
    /\ args.wait_for_replacement
    /\ pc = "exit"
    /\ outcome = "restarted"
    /\ old_tasks = <<"t1", "t2">>
    /\ stopCalls = <<"t1", "t2">>
    /\ task_arns = <<"t3", "t4">>
    /\ Count("list_tasks") = 3

====
